---------------------------- MODULE Spec2Model ----------------------------
(***************************************************************************)
(* Model of build_feed.py: the feed aggregation pipeline                   *)
(* (fetch_html, make_absolute_url, matches_filters, scrape_source,         *)
(* build_rss_feed, main).                                                  *)
(*                                                                         *)
(* Text is a sequence of one-character strings, so that substring tests,   *)
(* whitespace collapsing and URL resolution are computed, not assumed.     *)
(* An optional value is <<>> (Python None) or <<v>>.                       *)
(***************************************************************************)
EXTENDS Integers, Sequences, FiniteSets, TLC

VARIABLES
    pc,          \* position of main(): "start", "source", "cut", "articles",
                 \* "merge", "sort", "truncate", "write", "done", "aborted", "crashed"
    config,      \* the loaded configuration (keywords, exclude, sources, max_items)
    si,          \* index of the source the for-loop of main() is at
    urls,        \* scrape_source: candidate article URLs of the current source
    ui,          \* scrape_source: index of the next candidate article
    items,       \* scrape_source: items accumulated for the current source
    scraped,     \* main(): list returned by scrape_source
    mi,          \* main(): index of the next scraped item to merge
    all_items,   \* main(): accepted items
    seen_links,  \* main(): links of accepted items
    feed_xml,    \* content of feed.xml: <<>> until written, then <<entries>>
    error,       \* the exception that left main() uncaught: <<>> or <<message>>
    list_fetch,  \* history: outcome of the listing-page fetch of the latest call
                 \* of scrape_source ("none" when the call made no fetch)
    blocked,     \* history: indices of the sources whose listing fetch was Blocked
    art_log,     \* history: outcome of each candidate article of the current source
    listed,      \* history: href attributes of the link tags of the listing page
                 \* just parsed; <<>> once the candidate list is cut
    yielded,     \* history: <<source index, link, passes filters>> of every scraped item
    origin,      \* history: origin[i] is the source index of all_items[i]
    fn_in,       \* input of the function under test (function specifications)
    fn_out       \* its result: <<>> until applied, then <<result>>

vars == <<pc, config, si, urls, ui, items, scraped, mi, all_items, seen_links,
          feed_xml, error, list_fetch, blocked, art_log, listed, yielded, origin,
          fn_in, fn_out>>

--------------------------------------------------------------------------
(* Bounds of the model *)

MaxSources == 2
MaxTags == 2
MaxRetries == 2
MaxKeywords == 2
MaxExcess == 30

(* Program constants *)

DefaultRetries == 2
DefaultMaxItems == 60
DefaultMaxFromSource == 20
SummaryLimit == 4000
StatusForbidden == 403
StatusOk == 200
StatusServerError == 500

None == <<>>
Some(v) == <<v>>

Min(a, b) == IF a <= b THEN a ELSE b
Max(a, b) == IF a >= b THEN a ELSE b

--------------------------------------------------------------------------
(* Text *)

Lower(c) ==
    CASE c = "A" -> "a"
      [] c = "B" -> "b"
      [] c = "C" -> "c"
      [] c = "D" -> "d"
      [] c = "F" -> "f"
      [] c = "S" -> "s"
      [] c = "X" -> "x"
      [] OTHER -> c

\* str.lower()
LowerText(t) == [i \in 1..Len(t) |-> Lower(t[i])]

\* Python's `sub in t`
Contains(t, sub) ==
    \E i \in 0..(Len(t) - Len(sub)) : SubSeq(t, i + 1, i + Len(sub)) = sub

StartsWith(t, p) == Len(p) <= Len(t) /\ SubSeq(t, 1, Len(p)) = p
EndsWith(t, p) == Len(p) <= Len(t) /\ SubSeq(t, Len(t) - Len(p) + 1, Len(t)) = p

IsSpace(c) == c \in {" ", "\t", "\n"}

\* str.split(): the maximal runs of non-whitespace characters
RECURSIVE SplitFrom(_, _, _, _)
SplitFrom(t, i, cur, acc) ==
    IF i > Len(t)
    THEN IF cur = <<>> THEN acc ELSE Append(acc, cur)
    ELSE IF IsSpace(t[i])
         THEN SplitFrom(t, i + 1, <<>>, IF cur = <<>> THEN acc ELSE Append(acc, cur))
         ELSE SplitFrom(t, i + 1, Append(cur, t[i]), acc)

\* sep.join(words)
RECURSIVE Join(_, _)
Join(words, sep) ==
    IF words = <<>> THEN <<>>
    ELSE IF Len(words) = 1 THEN words[1]
    ELSE words[1] \o sep \o Join(Tail(words), sep)

\* str.strip()
RECURSIVE LStrip(_)
LStrip(t) == IF t # <<>> /\ IsSpace(t[1]) THEN LStrip(Tail(t)) ELSE t
RECURSIVE RStrip(_)
RStrip(t) ==
    IF t # <<>> /\ IsSpace(t[Len(t)]) THEN RStrip(SubSeq(t, 1, Len(t) - 1)) ELSE t
Strip(t) == LStrip(RStrip(t))

clean_text(text) ==
    IF text = <<>> THEN <<>> ELSE Join(SplitFrom(text, 1, <<>>, <<>>), <<" ">>)

--------------------------------------------------------------------------
(* Filtering *)

\* faulty variant of matches_filters: the include list is looked at first
matches_filters_include_first(title, summary, keywords, exclude_keywords) ==
    LET blob == LowerText(title \o <<" ">> \o summary) IN
    IF keywords # <<>>
       /\ \E i \in 1..Len(keywords) : Contains(blob, LowerText(keywords[i]))
    THEN TRUE
    ELSE IF exclude_keywords # <<>>
            /\ \E i \in 1..Len(exclude_keywords) :
                   Contains(blob, LowerText(exclude_keywords[i]))
    THEN FALSE
    ELSE keywords = <<>>

matches_filters(title, summary, keywords, exclude_keywords) ==
    LET blob == LowerText(title \o <<" ">> \o summary) IN
    IF exclude_keywords # <<>>
       /\ \E i \in 1..Len(exclude_keywords) :
              Contains(blob, LowerText(exclude_keywords[i]))
    THEN FALSE
    ELSE IF keywords = <<>>
    THEN TRUE
    ELSE \E i \in 1..Len(keywords) : Contains(blob, LowerText(keywords[i]))

--------------------------------------------------------------------------
(* URL resolution *)

SHttp == <<"h", "t", "t", "p", ":", "/", "/">>
SHttps == <<"h", "t", "t", "p", "s", ":", "/", "/">>
SHttpsColon == <<"h", "t", "t", "p", "s", ":">>
Slash == <<"/">>

\* number of leading characters of t that are not "/"
RECURSIVE HostLen(_)
HostLen(t) == IF t = <<>> \/ t[1] = "/" THEN 0 ELSE 1 + HostLen(Tail(t))

\* re.match(r"^https?://[^/]+", base_url): <<>> or <<group(0)>>
SchemeHost(base_url) ==
    LET p == IF StartsWith(base_url, SHttps) THEN Len(SHttps)
             ELSE IF StartsWith(base_url, SHttp) THEN Len(SHttp)
             ELSE 0
        k == HostLen(SubSeq(base_url, p + 1, Len(base_url)))
    IN IF p = 0 \/ k = 0 THEN None ELSE Some(SubSeq(base_url, 1, p + k))

\* href.lstrip("/")
RECURSIVE LStripSlash(_)
LStripSlash(t) == IF t # <<>> /\ t[1] = "/" THEN LStripSlash(Tail(t)) ELSE t

\* index of the last "/" of t, 0 when there is none
RECURSIVE LastSlash(_)
LastSlash(t) ==
    IF t = <<>> THEN 0
    ELSE IF t[Len(t)] = "/" THEN Len(t)
    ELSE LastSlash(SubSeq(t, 1, Len(t) - 1))

\* base_url.rsplit("/", 1)[0]
RSplitHead(t) == IF LastSlash(t) = 0 THEN t ELSE SubSeq(t, 1, LastSlash(t) - 1)

make_absolute_url(base_url, href) ==
    IF href = <<>> THEN <<>>
    ELSE IF StartsWith(href, SHttp) \/ StartsWith(href, SHttps) THEN href
    ELSE IF StartsWith(href, <<"/", "/">>) THEN SHttpsColon \o href
    ELSE IF StartsWith(href, Slash) /\ SchemeHost(base_url) # None
    THEN SchemeHost(base_url)[1] \o href
    ELSE IF EndsWith(base_url, Slash) THEN base_url \o LStripSlash(href)
    ELSE RSplitHead(base_url) \o Slash \o LStripSlash(href)

--------------------------------------------------------------------------
(* Dates.  The date parser is a library; a raw date text is the record    *)
(* of what the parser makes of it: kind "empty" (no text), "garbage" (the *)
(* parser raises) or "date" (a wall-clock time in seconds relative to     *)
(* 1970-01-01T00:00:00, a fraction of a second, and an optional zone      *)
(* offset in seconds).  An RFC 2822 date is [wall, off]: whole seconds    *)
(* and a numeric zone.                                                    *)

EmptyDate == [kind |-> "empty", wall |-> 0, frac |-> 0, tz |-> None]
GarbageDate == [kind |-> "garbage", wall |-> 0, frac |-> 0, tz |-> None]
DateText(w, f, z) == [kind |-> "date", wall |-> w, frac |-> f, tz |-> z]

parse_date_to_rss(raw) ==
    IF raw.kind = "empty" THEN None
    ELSE IF raw.kind = "garbage" THEN None
    ELSE LET off == IF raw.tz = None THEN 0 ELSE raw.tz[1]
         IN Some([wall |-> raw.wall, off |-> off])

\* dateparser.parse(published).timestamp(), 0.0 when published is falsy
sort_key(x) ==
    IF x.published # None
    THEN x.published[1].wall - x.published[1].off
    ELSE 0

--------------------------------------------------------------------------
(* Fetching.  The transport is a library; the remote side's answers to    *)
(* the successive requests of one fetch_html call are a sequence of       *)
(* responses.  A response is an HTTP response (status and body) or a      *)
(* transport exception (its message).  A body is a page: its size (0 for  *)
(* an empty text) and what the selectors find in it.                      *)

S403 == <<"4", "0", "3">>
SForbidden == <<"F", "o", "r", "b", "i", "d", "d", "e", "n">>
S500 == <<"5", "0", "0">>
STimeout == <<"t", "i", "m", "e", "d", " ", "o", "u", "t">>
SProxy == <<"p", "r", "o", "x", "y", " ">> \o SForbidden

EmptyPage ==
    [size |-> 0, hrefs |-> <<>>, title |-> <<>>, summary |-> <<>>,
     date |-> EmptyDate, broken |-> FALSE]

HttpResponse(status, body) ==
    [kind |-> "http", status |-> status, body |-> body, msg |-> <<>>]
TransportError(msg) ==
    [kind |-> "exc", status |-> 0, body |-> EmptyPage, msg |-> msg]

StatusText(status) == IF status = StatusServerError THEN S500 ELSE S403

\* str(HTTPError) as raise_for_status() builds it: status, reason and the URL
HttpErrorText(status, url) ==
    StatusText(status) \o <<" ", "E", "r", "r", "o", "r", " ">> \o url

\* faulty variant of is_403: only the status number is looked for
is_403_number_only(exc) == Contains(exc, S403)

is_403(exc) == Contains(exc, S403) \/ Contains(exc, SForbidden)

\* the response to request number k; the remote side repeats its last answer
ResponseAt(responses, k) ==
    IF k <= Len(responses) THEN responses[k] ELSE responses[Len(responses)]

FetchResult(out, body, err, requests, waits) ==
    [out |-> out, body |-> body, err |-> err, requests |-> requests, waits |-> waits]

\* the except branch of one attempt (lines 118-127)
RECURSIVE fetch_attempt(_, _, _, _, _)
fetch_except(url, retries, responses, attempt, waits, e) ==
    IF is_403(e)
    THEN FetchResult("None", EmptyPage, None, attempt + 1, waits)
    ELSE IF attempt < retries
    THEN fetch_attempt(url, retries, responses, attempt + 1, waits + 1)
    ELSE FetchResult("raise", EmptyPage, Some(e), attempt + 1, waits)

\* one iteration of `for attempt in range(retries + 1)` and what follows it
fetch_attempt(url, retries, responses, attempt, waits) ==
    IF attempt > retries
    THEN FetchResult("None", EmptyPage, None, attempt, waits)
    ELSE LET resp == ResponseAt(responses, attempt + 1) IN
         IF resp.kind = "http"
         THEN IF resp.status = StatusForbidden
              THEN FetchResult("None", EmptyPage, None, attempt + 1, waits)
              ELSE IF resp.status >= 400
              THEN fetch_except(url, retries, responses, attempt, waits,
                                HttpErrorText(resp.status, url))
              ELSE FetchResult("text", resp.body, None, attempt + 1, waits)
         ELSE fetch_except(url, retries, responses, attempt, waits, resp.msg)

\* out is "text" (the body is returned), "None" (blocked) or "raise"
fetch_html(url, retries, responses) == fetch_attempt(url, retries, responses, 0, 0)

\* faulty variant of Falsy: only the empty text is looked for
Falsy_empty_text_only(r) == r.out # "None" /\ r.body.size = 0

\* `not html`: None or the empty text
Falsy(r) == r.out = "None" \/ r.body.size = 0

--------------------------------------------------------------------------
(* Inputs: configurations and pages *)

SScrape == <<"s", "c", "r", "a", "p", "e">>
SFeed == <<"f", "e", "e", "d">>

\* listing URLs: http://h/ and http://h/n/x
ListUrl1 == SHttp \o <<"h", "/">>
ListUrl2 == SHttp \o <<"h", "/", "n", "/", "x">>

Source(type, list_url, link_sel, max_from_source) ==
    [type |-> type, list_url |-> list_url, item_link_selector |-> link_sel,
     max_from_source |-> max_from_source]

\* a source as feeds.yml gives it; an absent key is <<>>
SourceChoices ==
    { Source(None, ListUrl1, <<"a">>, None),
      Source(<<"S", "c", "r", "a", "p", "e", " ">>, ListUrl2, <<"a">>, Some(1)),
      Source(SScrape, None, <<"a">>, None),
      Source(SFeed, ListUrl1, <<"a">>, None) }

RECURSIVE SeqsUpTo(_, _)
SeqsUpTo(S, n) ==
    IF n = 0 THEN {<<>>}
    ELSE LET shorter == SeqsUpTo(S, n - 1)
         IN shorter \cup {Append(q, x) : q \in {r \in shorter : Len(r) = n - 1}, x \in S}

\* the global keys of feeds.yml: keywords, exclude_keywords, max_items
GlobalChoices ==
    { [keywords |-> <<>>, exclude_keywords |-> <<>>, max_items |-> None],
      [keywords |-> << <<"a">> >>, exclude_keywords |-> << <<"B">> >>,
       max_items |-> Some(-1)],
      [keywords |-> << <<"a">> >>, exclude_keywords |-> << <<"B">> >>,
       max_items |-> Some(1)] }

\* the sources key: up to MaxSources sources, no source listed twice
SourceLists ==
    { q \in SeqsUpTo(SourceChoices, MaxSources) :
        \A i, j \in 1..Len(q) : i # j => q[i] # q[j] }

ConfigChoices ==
    { [keywords |-> g.keywords, exclude_keywords |-> g.exclude_keywords,
       sources |-> srcs, max_items |-> g.max_items] :
         g \in GlobalChoices, srcs \in SourceLists }

\* href attributes of the link tags of a listing page; <<>> is a tag without href
Hrefs == { <<>>, <<"/", "a">>, <<"a">>, <<"/", "4", "0", "3">> }

ListingPages ==
    { [size |-> 1, hrefs |-> h, title |-> <<>>, summary |-> <<>>,
       date |-> EmptyDate, broken |-> FALSE] : h \in SeqsUpTo(Hrefs, MaxTags) }

\* what the title, summary and date selectors find in an article page
ArticlePage(title, summary, date, broken) ==
    [size |-> 1, hrefs |-> <<>>, title |-> title, summary |-> summary,
     date |-> date, broken |-> broken]

ArticlePages ==
    { ArticlePage(<<" ", "A", " ", " ", "c">>, <<>>, DateText(2, 1, Some(1)), FALSE),
      ArticlePage(<<"A", " ", "c">>, <<"x", "\n", "B">>, EmptyDate, FALSE),
      ArticlePage(<<"b">>, <<>>, DateText(-1, 0, None), FALSE),
      ArticlePage(<<" ">>, <<"x">>, GarbageDate, FALSE),
      ArticlePage(<<>>, <<>>, EmptyDate, TRUE) }

\* failures that are not an access denial
TransientResponses ==
    { HttpResponse(StatusServerError, EmptyPage), TransportError(STimeout) }

DeniedResponses ==
    { HttpResponse(StatusForbidden, EmptyPage), TransportError(SProxy) }

\* answers of the remote side to one fetch: the last answer comes at once,
\* or after `retries` server errors (at the last attempt)
ResponseSeqs(pages, retries) ==
    { prefix \o <<last>> :
        prefix \in {<<>>, [i \in 1..retries |-> HttpResponse(StatusServerError, EmptyPage)]},
        last \in {HttpResponse(StatusOk, b) : b \in pages \cup {EmptyPage}}
                 \cup DeniedResponses \cup TransientResponses }

--------------------------------------------------------------------------
(* scrape_source and main *)

\* faulty variant of Slice: one element too many
SliceOneMore(seq, n) ==
    IF n >= 0 THEN SubSeq(seq, 1, Min(n + 1, Len(seq)))
    ELSE SubSeq(seq, 1, Max(0, Len(seq) + n + 1))

\* seq[:n]
Slice(seq, n) ==
    IF n >= 0 THEN SubSeq(seq, 1, Min(n, Len(seq)))
    ELSE SubSeq(seq, 1, Max(0, Len(seq) + n))

InSeq(x, seq) == \E i \in 1..Len(seq) : seq[i] = x

\* faulty variant of collect_urls: a repeated URL is kept
RECURSIVE collect_urls_repeated(_, _, _)
collect_urls_repeated(list_url, hrefs, acc) ==
    IF hrefs = <<>> THEN acc
    ELSE LET href == Head(hrefs)
             abs_url == make_absolute_url(list_url, href)
         IN IF href = <<>> \/ abs_url = <<>>
            THEN collect_urls_repeated(list_url, Tail(hrefs), acc)
            ELSE collect_urls_repeated(list_url, Tail(hrefs), Append(acc, abs_url))

\* lines 161-168: resolved hrefs, empty ones and repetitions left out
RECURSIVE collect_urls(_, _, _)
collect_urls(list_url, hrefs, acc) ==
    IF hrefs = <<>> THEN acc
    ELSE LET href == Head(hrefs)
             abs_url == make_absolute_url(list_url, href)
         IN IF href = <<>> THEN collect_urls(list_url, Tail(hrefs), acc)
            ELSE IF abs_url # <<>> /\ ~InSeq(abs_url, acc)
            THEN collect_urls(list_url, Tail(hrefs), Append(acc, abs_url))
            ELSE collect_urls(list_url, Tail(hrefs), acc)

\* a value of feeds.yml is <<>> (the key is absent), <<n>> (an integer) or
\* a text that is no number, which int() rejects with ValueError
TextValue(t) == <<"str", t>>
int_raises(v) == Len(v) = 2
SInvalidLiteral == <<"i", "n", "v", "a", "l", "i", "d", " ", "l", "i", "t", "e", "r", "a", "l">>

\* int(src.get("max_from_source", 20))
max_from_source(src) ==
    IF src.max_from_source = None THEN DefaultMaxFromSource ELSE src.max_from_source[1]

\* (src.get("type") or "scrape").lower().strip()
src_type(src) == Strip(LowerText(IF src.type = <<>> THEN SScrape ELSE src.type))

\* the truncation marker of line 197: three characters
Marker == <<"U+00E2", "U+20AC", "U+00A6">>

truncate_summary(summary) ==
    IF Len(summary) > SummaryLimit
    THEN SubSeq(summary, 1, SummaryLimit) \o Marker
    ELSE summary

Item(title, summary, link, published) ==
    [title |-> title, summary |-> summary, link |-> link, published |-> published]

\* lines 182-204: <<>> when the article has no title, else <<item>>
extract_item(url, page) ==
    LET title == clean_text(page.title)
        summary == clean_text(page.summary)
        published == parse_date_to_rss(page.date)
    IN IF title = <<>> THEN None
       ELSE Some(Item(title, truncate_summary(summary), url, published))

\* faulty variant of already_seen: no global deduplication
already_seen_never(link, seen) == FALSE

\* link in seen_links
already_seen(link, seen) == link \in seen

\* list.sort(key=sort_key, reverse=True): descending, equal keys keep their order
RECURSIVE insert_desc(_, _)
insert_desc(sorted, x) ==
    IF sorted = <<>> THEN <<x>>
    ELSE IF sort_key(Head(sorted)) >= sort_key(x)
    THEN <<Head(sorted)>> \o insert_desc(Tail(sorted), x)
    ELSE <<x>> \o sorted

RECURSIVE sort_from(_, _)
sort_from(list, acc) ==
    IF list = <<>> THEN acc ELSE sort_from(Tail(list), insert_desc(acc, Head(list)))

\* faulty variant of sort_items: ascending stable sort, then reversed
RECURSIVE insert_asc(_, _)
insert_asc(sorted, x) ==
    IF sorted = <<>> THEN <<x>>
    ELSE IF sort_key(Head(sorted)) <= sort_key(x)
    THEN <<Head(sorted)>> \o insert_asc(Tail(sorted), x)
    ELSE <<x>> \o sorted

RECURSIVE sort_asc_from(_, _)
sort_asc_from(list, acc) ==
    IF list = <<>> THEN acc ELSE sort_asc_from(Tail(list), insert_asc(acc, Head(list)))

Reverse(list) == [i \in 1..Len(list) |-> list[Len(list) + 1 - i]]

sort_items_reversed(list) == Reverse(sort_asc_from(list, <<>>))

sort_items(list) == sort_from(list, <<>>)

\* int(config.get("max_items", 60))
max_items(cfg) == IF cfg.max_items = None THEN DefaultMaxItems ELSE cfg.max_items[1]

\* faulty variant of build_rss_feed: every entry gets a pubDate element, an
\* empty one when the item has no published value
build_rss_feed_always_dated(list) ==
    [i \in 1..Len(list) |->
        [title |-> list[i].title, link |-> list[i].link, guid |-> list[i].link,
         description |-> list[i].summary,
         pubDate |-> IF list[i].published # None THEN list[i].published
                     ELSE Some(EmptyDate)]]

\* lines 228-235: one entry per item; pubDate only when published is truthy
\* (published is None or a formatted date, never an empty text: lines 64-75)
build_rss_feed(list) ==
    [i \in 1..Len(list) |->
        [title |-> list[i].title, link |-> list[i].link, guid |-> list[i].link,
         description |-> list[i].summary,
         pubDate |-> IF list[i].published # None THEN list[i].published ELSE None]]

NoConfig == [keywords |-> <<>>, exclude_keywords |-> <<>>, sources |-> <<>>,
             max_items |-> None]

Init ==
    /\ pc = "start"
    /\ config = NoConfig
    /\ si = 0
    /\ urls = <<>>
    /\ ui = 0
    /\ items = <<>>
    /\ scraped = <<>>
    /\ mi = 0
    /\ all_items = <<>>
    /\ seen_links = {}
    /\ feed_xml = None
    /\ error = None
    /\ list_fetch = "none"
    /\ blocked = {}
    /\ art_log = <<>>
    /\ listed = <<>>
    /\ yielded = {}
    /\ origin = {}
    /\ fn_in = <<>>
    /\ fn_out = <<>>

scrape_vars == <<urls, ui, items, art_log, listed>>
merge_vars == <<scraped, mi, all_items, seen_links, yielded, origin>>
fn_vars == <<fn_in, fn_out>>

\* lines 247-256: the configuration is read; a missing or malformed file aborts
LoadConfigFrom(choices) ==
    /\ pc = "start"
    /\ \/ /\ pc' = "aborted"
          /\ error' = Some(<<"f", "e", "e", "d", "s", ".", "y", "m", "l">>)
          /\ UNCHANGED <<config, si>>
       \/ /\ \E cfg \in choices : config' = cfg
          /\ pc' = "source"
          /\ si' = 1
          /\ error' = error
    /\ UNCHANGED <<feed_xml, list_fetch, blocked>>
    /\ UNCHANGED scrape_vars
    /\ UNCHANGED merge_vars
    /\ UNCHANGED fn_vars

LoadConfig == LoadConfigFrom(ConfigChoices)

\* lines 258-262: a source of another type than scrape is skipped
SkipSource ==
    /\ pc = "source"
    /\ si <= Len(config.sources)
    /\ src_type(config.sources[si]) # SScrape
    /\ si' = si + 1
    /\ UNCHANGED <<pc, config, feed_xml, error, list_fetch, blocked>>
    /\ UNCHANGED scrape_vars
    /\ UNCHANGED merge_vars
    /\ UNCHANGED fn_vars

\* scrape_source returns `list` to line 264 of main
ReturnToMain(list) ==
    /\ scraped' = list
    /\ mi' = 1
    /\ pc' = "merge"
    /\ yielded' = yielded \cup
          { <<si, list[i].link,
              matches_filters(list[i].title, list[i].summary,
                              config.keywords, config.exclude_keywords)>> :
                i \in 1..Len(list) }
    /\ UNCHANGED <<all_items, seen_links, origin>>

\* an exception of scrape_source (of the listing fetch, or of the conversion
\* of line 145) reaches main, which has no handler
listing_raised(e) ==
    /\ pc' = "crashed"
    /\ error' = e
    /\ UNCHANGED <<urls, ui, items>>
    /\ UNCHANGED merge_vars

\* lines 264 and 139-168: scrape_source up to the collected URLs
ScrapeListing ==
    /\ pc = "source"
    /\ si <= Len(config.sources)
    /\ src_type(config.sources[si]) = SScrape
    /\ LET src == config.sources[si] IN
       IF int_raises(src.max_from_source)
       THEN /\ listing_raised(Some(SInvalidLiteral))
            /\ list_fetch' = "none"
            /\ UNCHANGED <<blocked, listed>>
       ELSE IF src.list_url = <<>> \/ src.item_link_selector = <<>>
       THEN /\ ReturnToMain(<<>>)
            /\ list_fetch' = "none"
            /\ UNCHANGED <<urls, ui, items, error, blocked, listed>>
       ELSE \E responses \in ResponseSeqs(ListingPages, DefaultRetries) :
              LET html == fetch_html(src.list_url, DefaultRetries, responses) IN
              /\ list_fetch' = html.out
              /\ blocked' = IF html.out = "None" THEN blocked \cup {si} ELSE blocked
              /\ listed' = IF html.out = "raise" \/ Falsy(html) THEN listed
                            ELSE html.body.hrefs
              /\ IF html.out = "raise"
                 THEN listing_raised(html.err)
                 ELSE IF Falsy(html)
                 THEN /\ ReturnToMain(<<>>)
                      /\ UNCHANGED <<urls, ui, items, error>>
                 ELSE /\ urls' = collect_urls(src.list_url, html.body.hrefs, <<>>)
                      /\ pc' = "cut"
                      /\ UNCHANGED <<ui, items, error>>
                      /\ UNCHANGED merge_vars
    /\ UNCHANGED <<config, si, feed_xml, art_log>>
    /\ UNCHANGED fn_vars

\* lines 170-173: the collected URLs are cut to the candidate list
CutCandidates ==
    /\ pc = "cut"
    /\ urls' = Slice(urls, max_from_source(config.sources[si]))
    /\ ui' = 1
    /\ items' = <<>>
    /\ listed' = <<>>
    /\ pc' = "articles"
    /\ UNCHANGED <<config, si, feed_xml, error, list_fetch, blocked, art_log>>
    /\ UNCHANGED merge_vars
    /\ UNCHANGED fn_vars

\* what the body of the loop of lines 175-206 does with one article:
\* "blocked", "error" (an exception, caught at line 205), "untitled" or "item"
article_outcome(url, art_html) ==
    IF art_html.out = "raise" THEN "error"
    ELSE IF Falsy(art_html) THEN "blocked"
    ELSE IF art_html.body.broken THEN "error"
    ELSE IF extract_item(url, art_html.body) = None THEN "untitled"
    ELSE "item"

\* faulty variant of scrape_article: an exception loses the items gathered so far
scrape_article_poisoned(list, url, art_html) ==
    IF article_outcome(url, art_html) = "item"
    THEN Append(list, extract_item(url, art_html.body)[1])
    ELSE IF article_outcome(url, art_html) = "error" THEN <<>>
    ELSE list

\* items after the iteration for `url`
scrape_article(list, url, art_html) ==
    IF article_outcome(url, art_html) = "item"
    THEN Append(list, extract_item(url, art_html.body)[1])
    ELSE list

\* lines 175-206: one iteration of the article loop
ScrapeArticle ==
    /\ pc = "articles"
    /\ ui <= Len(urls)
    /\ \E responses \in ResponseSeqs(ArticlePages, DefaultRetries) :
         LET url == urls[ui]
             art_html == fetch_html(url, DefaultRetries, responses)
         IN /\ items' = scrape_article(items, url, art_html)
            /\ art_log' = Append(art_log,
                  [url |-> url, out |-> art_html.out, page |-> art_html.body])
    /\ ui' = ui + 1
    /\ UNCHANGED <<pc, config, si, urls, feed_xml, error, list_fetch, blocked, listed>>
    /\ UNCHANGED merge_vars
    /\ UNCHANGED fn_vars

\* lines 208-209: scrape_source returns its items
ScrapeReturn ==
    /\ pc = "articles"
    /\ ui > Len(urls)
    /\ ReturnToMain(items)
    /\ art_log' = <<>>
    /\ UNCHANGED <<config, si, urls, ui, items, feed_xml, error, list_fetch, blocked,
                   listed>>
    /\ UNCHANGED fn_vars


\* faulty variant of MergeItem: the link is recorded before the filters are applied
MergeItemSeenFirst ==
    /\ pc = "merge"
    /\ mi <= Len(scraped)
    /\ LET item == scraped[mi] IN
       IF already_seen(item.link, seen_links)
       THEN UNCHANGED <<all_items, seen_links, origin>>
       ELSE /\ seen_links' = seen_links \cup {item.link}
            /\ IF matches_filters(item.title, item.summary,
                                  config.keywords, config.exclude_keywords)
               THEN /\ all_items' = Append(all_items, item)
                    /\ origin' = origin \cup {<<item.link, si>>}
               ELSE UNCHANGED <<all_items, origin>>
    /\ mi' = mi + 1
    /\ UNCHANGED <<pc, config, si, scraped, yielded, feed_xml, error, list_fetch, blocked>>
    /\ UNCHANGED scrape_vars
    /\ UNCHANGED fn_vars

\* faulty variant of MergeItem: the filters are not applied
MergeItemUnfiltered ==
    /\ pc = "merge"
    /\ mi <= Len(scraped)
    /\ LET item == scraped[mi] IN
       IF already_seen(item.link, seen_links)
       THEN UNCHANGED <<all_items, seen_links, origin>>
       ELSE /\ all_items' = Append(all_items, item)
            /\ seen_links' = seen_links \cup {item.link}
            /\ origin' = origin \cup {<<item.link, si>>}
    /\ mi' = mi + 1
    /\ UNCHANGED <<pc, config, si, scraped, yielded, feed_xml, error, list_fetch, blocked>>
    /\ UNCHANGED scrape_vars
    /\ UNCHANGED fn_vars

\* lines 267-273: one iteration of the filter and dedupe loop
MergeItem ==
    /\ pc = "merge"
    /\ mi <= Len(scraped)
    /\ LET item == scraped[mi] IN
       IF already_seen(item.link, seen_links)
       THEN UNCHANGED <<all_items, seen_links, origin>>
       ELSE IF matches_filters(item.title, item.summary,
                               config.keywords, config.exclude_keywords)
       THEN /\ all_items' = Append(all_items, item)
            /\ seen_links' = seen_links \cup {item.link}
            /\ origin' = origin \cup {<<item.link, si>>}
       ELSE UNCHANGED <<all_items, seen_links, origin>>
    /\ mi' = mi + 1
    /\ UNCHANGED <<pc, config, si, scraped, yielded, feed_xml, error, list_fetch, blocked>>
    /\ UNCHANGED scrape_vars
    /\ UNCHANGED fn_vars

\* line 258: the for-loop of main takes the next source
MergeDone ==
    /\ pc = "merge"
    /\ mi > Len(scraped)
    /\ pc' = "source"
    /\ si' = si + 1
    /\ UNCHANGED <<config, feed_xml, error, list_fetch, blocked>>
    /\ UNCHANGED scrape_vars
    /\ UNCHANGED merge_vars
    /\ UNCHANGED fn_vars

\* line 258: no source is left
SourcesDone ==
    /\ pc = "source"
    /\ si > Len(config.sources)
    /\ pc' = "sort"
    /\ UNCHANGED <<config, si, feed_xml, error, list_fetch, blocked>>
    /\ UNCHANGED scrape_vars
    /\ UNCHANGED merge_vars
    /\ UNCHANGED fn_vars

\* line 286
SortItems ==
    /\ pc = "sort"
    /\ all_items' = sort_items(all_items)
    /\ pc' = "truncate"
    /\ UNCHANGED <<config, si, feed_xml, error, list_fetch, blocked>>
    /\ UNCHANGED scrape_vars
    /\ UNCHANGED <<scraped, mi, seen_links, yielded, origin>>
    /\ UNCHANGED fn_vars

\* line 289
Truncate ==
    /\ pc = "truncate"
    /\ all_items' = Slice(all_items, max_items(config))
    /\ pc' = "write"
    /\ UNCHANGED <<config, si, feed_xml, error, list_fetch, blocked>>
    /\ UNCHANGED scrape_vars
    /\ UNCHANGED <<scraped, mi, seen_links, yielded, origin>>
    /\ UNCHANGED fn_vars

\* lines 293-298: feed.xml is built and written
WriteFeed ==
    /\ pc = "write"
    /\ feed_xml' = Some(build_rss_feed(all_items))
    /\ pc' = "done"
    /\ UNCHANGED <<config, si, error, list_fetch, blocked>>
    /\ UNCHANGED scrape_vars
    /\ UNCHANGED merge_vars
    /\ UNCHANGED fn_vars

Next ==
    \/ LoadConfig
    \/ SkipSource
    \/ ScrapeListing
    \/ CutCandidates
    \/ ScrapeArticle
    \/ ScrapeReturn
    \/ MergeItem
    \/ MergeDone
    \/ SourcesDone
    \/ SortItems
    \/ Truncate
    \/ WriteFeed

Spec == Init /\ [][Next]_vars

--------------------------------------------------------------------------
(* The run on sources with other settings: a per-source cap that is       *)
(* negative, zero or one, a cap that is no number, a missing list_url, a  *)
(* missing item_link_selector.                                            *)

SNotANumber == <<"t", "e", "n">>

CappedSources ==
    { Source(SScrape, ListUrl2, <<"a">>, Some(-1)),
      Source(SScrape, ListUrl1, <<"a">>, Some(1)),
      Source(SScrape, ListUrl1, <<"a">>, Some(0)) }

UnreadSources ==
    { Source(SScrape, None, <<"a">>, TextValue(SNotANumber)),
      Source(SScrape, None, <<"a">>, None),
      Source(SScrape, ListUrl1, None, None),
      Source(SFeed, ListUrl1, <<"a">>, None) }

\* one source, or a source that is not read followed by a capped one
SettingsSourceLists ==
    { <<s>> : s \in CappedSources \cup UnreadSources }
    \cup { <<u, s>> : u \in UnreadSources, s \in CappedSources }

SettingsConfigChoices ==
    { [keywords |-> <<>>, exclude_keywords |-> <<>>, sources |-> srcs,
       max_items |-> None] : srcs \in SettingsSourceLists }

LoadSettingsConfig == LoadConfigFrom(SettingsConfigChoices)

SettingsNext ==
    \/ LoadSettingsConfig
    \/ SkipSource
    \/ ScrapeListing
    \/ CutCandidates
    \/ ScrapeArticle
    \/ ScrapeReturn
    \/ MergeItem
    \/ MergeDone
    \/ SourcesDone
    \/ SortItems
    \/ Truncate
    \/ WriteFeed

SettingsSpec == Init /\ [][SettingsNext]_vars

--------------------------------------------------------------------------
(* fetch_html as a function of the remote side's answers *)

FetchUrls == { SHttp \o <<"h", "/", "a">>, SHttp \o <<"h", "/", "4", "0", "3">> }

FetchPage == ArticlePage(<<"A">>, <<>>, EmptyDate, FALSE)

FetchResponses ==
    { HttpResponse(StatusOk, FetchPage), HttpResponse(StatusOk, EmptyPage) }
    \cup DeniedResponses \cup TransientResponses

FetchInputs ==
    { [url |-> u, retries |-> n, responses |-> r] :
        u \in FetchUrls, n \in 0..MaxRetries,
        r \in {q \in SeqsUpTo(FetchResponses, MaxRetries + 1) : Len(q) >= 1} }

FnInit(inputs) ==
    /\ pc = "fn"
    /\ config = NoConfig
    /\ si = 0
    /\ urls = <<>>
    /\ ui = 0
    /\ items = <<>>
    /\ scraped = <<>>
    /\ mi = 0
    /\ all_items = <<>>
    /\ seen_links = {}
    /\ feed_xml = None
    /\ error = None
    /\ list_fetch = "none"
    /\ blocked = {}
    /\ art_log = <<>>
    /\ listed = <<>>
    /\ yielded = {}
    /\ origin = {}
    /\ fn_in \in inputs
    /\ fn_out = None

main_vars == <<pc, config, si, urls, ui, items, scraped, mi, all_items, seen_links,
               feed_xml, error, list_fetch, blocked, art_log, listed, yielded,
               origin>>

FetchInit == FnInit({i \in FetchInputs : Len(i.responses) = i.retries + 1})

\* one call fetch_html(url, retries)
FetchCall ==
    /\ pc = "fn"
    /\ fn_out = None
    /\ fn_out' = Some(fetch_html(fn_in.url, fn_in.retries, fn_in.responses))
    /\ UNCHANGED fn_in
    /\ UNCHANGED main_vars

FetchSpec == FetchInit /\ [][FetchCall]_vars

--------------------------------------------------------------------------
(* the truncation of lines 195-197 as a function of the cleaned summary *)

\* a text of n characters
TextOfLen(n) == [i \in 1..n |-> "x"]

TruncateInputs ==
    { [summary |-> TextOfLen(n)] :
        n \in {0, 1} \cup ((SummaryLimit - MaxExcess)..(SummaryLimit + MaxExcess)) }

TruncateInit == FnInit(TruncateInputs)

\* lines 196-197 applied to one summary
TruncateCall ==
    /\ pc = "fn"
    /\ fn_out = None
    /\ fn_out' = Some(truncate_summary(fn_in.summary))
    /\ UNCHANGED fn_in
    /\ UNCHANGED main_vars

TruncateSpec == TruncateInit /\ [][TruncateCall]_vars

--------------------------------------------------------------------------
(* make_absolute_url as a function of the base URL and the href *)

\* base URLs: scheme, host "h" and a path that is absent, "/", a file, a
\* directory or a file in a directory
UrlPaths == { <<>>, <<"/">>, <<"/", "n">>, <<"/", "n", "/">>, <<"/", "n", "/", "x">> }
UrlBases == { scheme \o <<"h">> \o path : scheme \in {SHttp, SHttps}, path \in UrlPaths }

UrlHrefs ==
    { <<>>, <<"a">>, <<"a", "/", "b">>, <<"?", "q">>, <<"#", "f">>, <<".", ".">>,
      <<"/", "a">>, <<"/", "/", "c">>, SHttp \o <<"c", "/", "d">>, SHttps \o <<"c">> }

UrlInputs == { [base_url |-> b, href |-> h] : b \in UrlBases, h \in UrlHrefs }

UrlInit == FnInit(UrlInputs)

\* one call make_absolute_url(base_url, href)
UrlCall ==
    /\ pc = "fn"
    /\ fn_out = None
    /\ fn_out' = Some(make_absolute_url(fn_in.base_url, fn_in.href))
    /\ UNCHANGED fn_in
    /\ UNCHANGED main_vars

UrlSpec == UrlInit /\ [][UrlCall]_vars

--------------------------------------------------------------------------
(* matches_filters as a function of an item and the keyword lists *)

FilterTitles == { <<>>, <<"A", " ", "c">>, <<"b">> }
FilterSummaries == { <<>>, <<"x", " ", "B">>, <<"d">> }

\* keywords: a lower-case one, an upper-case one, one that spans the end of
\* the title and the start of the summary, and the empty text
FilterKeywords == { <<"a">>, <<"B">>, <<"c", " ", "X">>, <<>> }

FilterInputs ==
    { [title |-> t, summary |-> m, keywords |-> k, exclude_keywords |-> x] :
        t \in FilterTitles, m \in FilterSummaries,
        k \in SeqsUpTo(FilterKeywords, MaxKeywords),
        x \in SeqsUpTo(FilterKeywords, MaxKeywords) }

FilterInit == FnInit(FilterInputs)

\* one call matches_filters(title, summary, keywords, exclude_keywords)
FilterCall ==
    /\ pc = "fn"
    /\ fn_out = None
    /\ fn_out' = Some(matches_filters(fn_in.title, fn_in.summary,
                                      fn_in.keywords, fn_in.exclude_keywords))
    /\ UNCHANGED fn_in
    /\ UNCHANGED main_vars

FilterSpec == FilterInit /\ [][FilterCall]_vars

--------------------------------------------------------------------------
(* Properties of fetch_html (FetchSpec) *)

\* the error text of a failed attempt: <<>> when the attempt did not fail
ErrorTextOf(resp, url) ==
    IF resp.kind = "exc" THEN Some(resp.msg)
    ELSE IF resp.status >= 400 THEN Some(HttpErrorText(resp.status, url))
    ELSE None

Failed(resp, url) == resp.kind = "exc" \/ resp.status >= 400

\* HTTP 403, or an error whose message contains 403 or Forbidden
DeniedAttempt(resp, url) ==
    \/ resp.kind = "http" /\ resp.status = StatusForbidden
    \/ /\ Failed(resp, url)
       /\ \/ Contains(ErrorTextOf(resp, url)[1], S403)
          \/ Contains(ErrorTextOf(resp, url)[1], SForbidden)

\* attempt k is made: every earlier attempt failed without being denied
AttemptMade(inp, k) ==
    /\ k <= inp.retries + 1
    /\ \A j \in 1..(k - 1) :
          Failed(inp.responses[j], inp.url) /\ ~DeniedAttempt(inp.responses[j], inp.url)

\* C8: the attempt that is denied (HTTP 403, or an error whose message
\* contains 403 or Forbidden) is the last request of the call: fetch_html
\* returns Blocked (None) with exactly that many requests sent and no
\* backoff wait after the denial, however many retries remain.
C8_BlockedNeverRetried ==
    (pc = "fn" /\ fn_out # None) =>
        \A k \in 1..Len(fn_in.responses) :
            (AttemptMade(fn_in, k) /\ DeniedAttempt(fn_in.responses[k], fn_in.url))
            => /\ fn_out[1].out = "None"
               /\ fn_out[1].requests = k
               /\ fn_out[1].waits = k - 1

\* C8 witness: a denial at the second attempt of a call with two retries
C8_Witness ==
    /\ pc = "fn"
    /\ fn_out # None
    /\ fn_in.retries = 2
    /\ AttemptMade(fn_in, 2)
    /\ fn_in.responses[2] = TransportError(SProxy)
    /\ fn_out[1].out = "None"
    /\ fn_out[1].requests = 2

\* a failure that is no access denial: an HTTP error status other than 403,
\* or a transport error whose message names neither 403 nor Forbidden
OtherFailure(resp) ==
    \/ resp.kind = "http" /\ resp.status >= 400 /\ resp.status # StatusForbidden
    \/ resp.kind = "exc" /\ ~Contains(resp.msg, S403) /\ ~Contains(resp.msg, SForbidden)

\* C9: when every one of the n+1 attempts fails with an error that is no
\* access denial, fetch_html sends n+1 requests, waits n times and raises the
\* last error; a success at attempt k after k-1 such failures returns the
\* content after exactly k requests.
C9_RetriesThenRaises ==
    (pc = "fn" /\ fn_out # None) =>
        LET n == fn_in.retries
            r == fn_out[1]
        IN /\ (\A k \in 1..(n + 1) : OtherFailure(fn_in.responses[k]))
              => /\ r.out = "raise"
                 /\ r.requests = n + 1
                 /\ r.waits = n
                 /\ r.err = ErrorTextOf(fn_in.responses[n + 1], fn_in.url)
           /\ \A k \in 1..(n + 1) :
                 ( /\ \A j \in 1..(k - 1) : OtherFailure(fn_in.responses[j])
                   /\ ~Failed(fn_in.responses[k], fn_in.url) )
                 => /\ r.out = "text"
                    /\ r.body = fn_in.responses[k].body
                    /\ r.requests = k

--------------------------------------------------------------------------
(* Properties of the run (Spec) *)

Links(list) == {list[i].link : i \in 1..Len(list)}
ItemsWithLink(list, l) == {i \in 1..Len(list) : list[i].link = l}
Sorted == pc \in {"truncate", "write", "done"}
Final == pc \in {"write", "done"}

\* C1: a listing-page fetch that raises does not end the run: main goes on
\* with the loop over the sources and the accepted items are kept.
C1_ListingFailureIsolated ==
    [][(pc = "source" /\ list_fetch' = "raise")
         => (pc' \in {"merge", "source"} /\ all_items' = all_items)]_vars

\* C2: a run whose configuration was loaded and that has stopped has
\* written the output document.
C2_RunWritesFeed ==
    (pc \in {"done", "crashed"}) => feed_xml # None

\* C3: no two accepted items share a link, and the written document has
\* no two entries with the same link.
C3_DistinctLinks ==
    /\ \A i, j \in 1..Len(all_items) :
          i # j => all_items[i].link # all_items[j].link
    /\ feed_xml # None =>
          \A i, j \in 1..Len(feed_xml[1]) :
              i # j => feed_xml[1][i].link # feed_xml[1][j].link

\* C3 witness: a second source offered a link that was already accepted,
\* and the run ended with two items
C3_Witness ==
    /\ pc = "done"
    /\ Len(feed_xml[1]) >= 2
    /\ \E l \in Links(all_items) : <<1, l, TRUE>> \in yielded /\ <<2, l, TRUE>> \in yielded

\* C4 as claimed: when two sources yield an item with the same link and one
\* of the two passes the filters, exactly one item with that link is
\* accepted and it is the one of the source processed first.
C4_FirstSourceWins ==
    pc = "sort" =>
        \A y1, y2 \in yielded :
            (y1[2] = y2[2] /\ y1[1] < y2[1] /\ (y1[3] \/ y2[3]))
            => /\ Cardinality(ItemsWithLink(all_items, y1[2])) = 1
               /\ <<y1[2], y1[1]>> \in origin

\* C4 as amended: when two sources yield an item with the same link and one
\* of the two passes the filters, exactly one item with that link is
\* accepted and it is the one of the first source whose item passes the
\* filters; an item of a later source with that link is dropped.
C4_FirstAcceptedWins ==
    pc = "sort" =>
        \A y1, y2 \in yielded :
            (y1[2] = y2[2] /\ y1[1] < y2[1] /\ (y1[3] \/ y2[3]))
            => LET passing == {y \in yielded : y[2] = y1[2] /\ y[3]}
                   first == CHOOSE y \in passing : \A z \in passing : y[1] <= z[1]
               IN /\ Cardinality(ItemsWithLink(all_items, y1[2])) = 1
                  /\ {o \in origin : o[1] = y1[2]} = {<<y1[2], first[1]>>}

\* C4 witness: the first source's item was rejected by the filters and the
\* second source's item with the same link was accepted
C4_Witness ==
    /\ pc = "sort"
    /\ \E l \in Links(all_items) :
          /\ <<1, l, FALSE>> \in yielded
          /\ <<2, l, TRUE>> \in yielded
          /\ <<l, 2>> \in origin

\* C5 as claimed: the final output has at most max_items items.
C5_AtMostMaxItems ==
    Final => Len(all_items) <= max_items(config)

\* C5 as amended: for max_items >= 0 the final output has at most max_items
\* items; for max_items = -k < 0 it is the sorted list without its last k
\* items.
C5_AtMostMaxItemsNonNegative ==
    Final =>
        /\ max_items(config) >= 0 => Len(all_items) <= max_items(config)
        /\ max_items(config) < 0 =>
              Len(all_items) = Max(0, Cardinality(seen_links) + max_items(config))
        /\ feed_xml # None => Len(feed_xml[1]) = Len(all_items)

\* C5 witness: two items were accepted and max_items = 1 cut the output to one
C5_Witness ==
    /\ pc = "done"
    /\ max_items(config) = 1
    /\ Cardinality(seen_links) >= 2
    /\ Len(feed_xml[1]) = 1

\* C6: in the sorted list every item without a published value comes after
\* every item that has one.
C6_UndatedAfterDated ==
    Sorted =>
        \A i, j \in 1..Len(all_items) :
            (all_items[i].published = None /\ all_items[j].published # None) => j < i

PositionIn(list, x) == CHOOSE k \in 1..Len(list) : list[k] = x

NonIncreasing(list) ==
    \A i, j \in 1..Len(list) : i < j => sort_key(list[i]) >= sort_key(list[j])

\* new holds the elements of old; elements of equal rank keep their order
StableOrderOf(old, new) ==
    /\ Len(new) = Len(old)
    /\ \A k \in 1..Len(old) : \E i \in 1..Len(new) : new[i] = old[k]
    /\ \A i, j \in 1..Len(new) :
          (i < j /\ sort_key(new[i]) = sort_key(new[j]))
          => PositionIn(old, new[i]) < PositionIn(old, new[j])

\* C7: the sort step leaves the accepted items in non-increasing order of
\* rank with items of equal rank in the order of their acceptance, the
\* truncation keeps a prefix of it, and so the final output is ordered.
C7_StableDescendingSort ==
    /\ [](Sorted => NonIncreasing(all_items))
    /\ [][pc = "sort" => StableOrderOf(all_items, all_items')]_vars
    /\ [][pc = "truncate" =>
            all_items' = SubSeq(all_items, 1, Len(all_items'))]_vars

\* C7 witness: a final output of three items in which the sort moved an item
\* of the second source ahead of two items of equal rank
C7_Witness ==
    /\ pc = "done"
    /\ Len(all_items) = 3
    /\ <<all_items[1].link, 2>> \in origin
    /\ sort_key(all_items[1]) > sort_key(all_items[2])
    /\ sort_key(all_items[2]) = sort_key(all_items[3])
    /\ <<all_items[2].link, 1>> \in origin

\* the item an article gives by itself: none unless its fetch returned a
\* page, the extraction did not raise and the cleaned title is non-empty
ItemOfArticle(e) ==
    IF e.out = "text" /\ ~e.page.broken /\ clean_text(e.page.title) # <<>>
    THEN << Item(clean_text(e.page.title), clean_text(e.page.summary), e.url,
                 parse_date_to_rss(e.page.date)) >>
    ELSE <<>>

RECURSIVE ItemsOfArticles(_)
ItemsOfArticles(log) ==
    IF log = <<>> THEN <<>> ELSE ItemOfArticle(Head(log)) \o ItemsOfArticles(Tail(log))

\* C10: while scrape_source goes through the candidates, its items are
\* exactly the items of the articles processed so far that were fetched,
\* extracted and have a title, in candidate order, whatever happened to the
\* other articles; and no article makes the run raise (only the listing
\* fetch, or the steps before it, can).
C10_ArticleIsolation ==
    /\ pc = "articles" =>
          /\ Len(art_log) = ui - 1
          /\ \A k \in 1..Len(art_log) : art_log[k].url = urls[k]
          /\ items = ItemsOfArticles(art_log)
    /\ pc = "crashed" => list_fetch \in {"raise", "none"}

\* C10 witness: of two candidates the first failed fatally and the second
\* gave an item
C10_Witness ==
    /\ pc = "articles"
    /\ ui = 3
    /\ art_log[1].out = "raise"
    /\ Len(items) = 1
    /\ items[1].link = urls[2]

EntryLinks(entries) == {entries[i].link : i \in 1..Len(entries)}

\* C11: a source whose listing fetch returns Blocked gives an empty list
\* without any article being fetched for it and leaves the accepted items as
\* they are; main then takes the next source; a blocked source has yielded no
\* item, every item of the other sources that passes the filters is among
\* the accepted items when the loop over the sources ends, and the written
\* document holds all of them when max_items does not cut the list.
C11_BlockedListingSkipsSource ==
    /\ [][(pc = "source" /\ blocked' # blocked)
            => /\ blocked' = blocked \cup {si}
               /\ pc' = "merge"
               /\ scraped' = <<>>
               /\ all_items' = all_items
               /\ UNCHANGED <<urls, ui, items, art_log, listed>>]_vars
    /\ [][(pc = "merge" /\ si \in blocked)
            => (pc' = "source" /\ si' = si + 1 /\ all_items' = all_items)]_vars
    /\ [](\A y \in yielded : y[1] \notin blocked)
    /\ [](pc = "sort" => \A y \in yielded : y[3] => y[2] \in Links(all_items))
    /\ []((pc = "done" /\ max_items(config) >= Cardinality(seen_links))
            => EntryLinks(feed_xml[1]) = seen_links)

\* C11 witness: the listing page of the first source was blocked and the
\* written document holds an item of the second source
C11_Witness ==
    /\ pc = "done"
    /\ 1 \in blocked
    /\ \E l \in EntryLinks(feed_xml[1]) : <<l, 2>> \in origin

--------------------------------------------------------------------------
(* Properties of matches_filters (FilterSpec) *)

\* two characters are the same letter, whatever their case
SameLetter(a, b) ==
    \/ a = b
    \/ <<a, b>> \in { <<"a", "A">>, <<"b", "B">>, <<"c", "C">>, <<"d", "D">>,
                       <<"x", "X">> }
    \/ <<b, a>> \in { <<"a", "A">>, <<"b", "B">>, <<"c", "C">>, <<"d", "D">>,
                       <<"x", "X">> }

\* kw occurs in text at some position, letter by letter, case ignored
OccursIn(kw, text) ==
    \E p \in 0..(Len(text) - Len(kw)) :
        \A j \in 1..Len(kw) : SameLetter(text[p + j], kw[j])

AnyOccurs(kws, text) == \E i \in 1..Len(kws) : OccursIn(kws[i], text)

FilterText(inp) == inp.title \o <<" ">> \o inp.summary

\* C12: matches_filters accepts exactly when no exclude keyword occurs in
\* the title-plus-summary text (case ignored) and the include list is empty
\* or one of its keywords occurs; so an exclude match rejects even when an
\* include keyword matches, and two empty lists accept.
C12_FilterDecision ==
    (pc = "fn" /\ fn_out # None) =>
        LET text == FilterText(fn_in) IN
        /\ fn_out[1] = ( /\ ~AnyOccurs(fn_in.exclude_keywords, text)
                         /\ \/ fn_in.keywords = <<>>
                            \/ AnyOccurs(fn_in.keywords, text) )
        /\ AnyOccurs(fn_in.exclude_keywords, text) => fn_out[1] = FALSE
        /\ (fn_in.keywords = <<>> /\ fn_in.exclude_keywords = <<>>) => fn_out[1] = TRUE

\* C12 witness: an include keyword and an exclude keyword both occur, each
\* in another case than in the text, and the item is rejected
C12_Witness ==
    /\ pc = "fn"
    /\ fn_out = Some(FALSE)
    /\ fn_in.title = <<"A", " ", "c">>
    /\ fn_in.summary = <<"x", " ", "B">>
    /\ fn_in.keywords = << <<"a">> >>
    /\ fn_in.exclude_keywords = << <<"c", " ", "X">> >>

--------------------------------------------------------------------------
(* Properties of the summary truncation (TruncateSpec) *)

\* C13: a summary is at most 4001 characters long after the truncation: one
\* longer than 4000 characters is cut to its first 4000 characters plus a
\* marker of one character, and one of 4000 characters or fewer is unchanged.
C13_SummaryAtMost4001 ==
    (pc = "fn" /\ fn_out # None) =>
        /\ Len(fn_out[1]) <= SummaryLimit + 1
        /\ Len(fn_in.summary) > SummaryLimit =>
              /\ Len(fn_out[1]) = SummaryLimit + 1
              /\ SubSeq(fn_out[1], 1, SummaryLimit) = SubSeq(fn_in.summary, 1, SummaryLimit)
        /\ Len(fn_in.summary) <= SummaryLimit => fn_out[1] = fn_in.summary

--------------------------------------------------------------------------
(* Further properties of the run (Spec) *)

\* C14: main dispatches a source by its type: a source of type feed is
\* read, not skipped; only a source whose type is neither scrape nor feed is
\* passed over without being read.
C14_FeedSourceDispatched ==
    [][(pc = "source" /\ pc' = "source" /\ si' = si + 1)
         => src_type(config.sources[si]) \notin {SScrape, SFeed}]_vars

\* C15: the written document holds one entry per item of the list it was
\* built from, in the order of the list, each with the item's title, link and
\* summary and with guid equal to the link; an entry has a pubDate element
\* exactly when the item has a published value, and then it is that value.
C15_OneEntryPerItem ==
    feed_xml # None =>
        LET entries == feed_xml[1] IN
        /\ Len(entries) = Len(all_items)
        /\ \A i \in 1..Len(entries) :
              /\ entries[i].title = all_items[i].title
              /\ entries[i].link = all_items[i].link
              /\ entries[i].guid = all_items[i].link
              /\ entries[i].description = all_items[i].summary
              /\ (entries[i].pubDate # None) <=> (all_items[i].published # None)
              /\ entries[i].pubDate # None => entries[i].pubDate = all_items[i].published

\* C15 witness: a document of two entries or more, the first with a pubDate
\* element and a later one without
C15_Witness ==
    /\ pc = "done"
    /\ Len(feed_xml[1]) >= 2
    /\ feed_xml[1][1].pubDate # None
    /\ \E i \in 2..Len(feed_xml[1]) :
          feed_xml[1][i].pubDate = None /\ all_items[i].published = None

--------------------------------------------------------------------------
(* Properties of make_absolute_url (UrlSpec) *)

\* scheme and host of an http/https URL, and the path that follows them
OriginOf(url) ==
    LET p == IF StartsWith(url, SHttps) THEN Len(SHttps) ELSE Len(SHttp)
    IN SubSeq(url, 1, p + HostLen(SubSeq(url, p + 1, Len(url))))
PathOf(url) == SubSeq(url, Len(OriginOf(url)) + 1, Len(url))

\* the directory of a URL: scheme, host and the path up to its last "/"
\* ("/" when the URL has no path)
DirectoryOf(url) ==
    IF PathOf(url) = <<>> THEN OriginOf(url) \o Slash
    ELSE OriginOf(url) \o SubSeq(PathOf(url), 1, LastSlash(PathOf(url)))

RelativeHref(href) ==
    /\ href # <<>>
    /\ ~StartsWith(href, SHttp)
    /\ ~StartsWith(href, SHttps)
    /\ ~StartsWith(href, Slash)

\* C16: for an href that is non-empty, not http/https-absolute and does not
\* start with "/", make_absolute_url returns the directory of the base URL
\* followed by the href, so the result keeps the scheme and host of the base
\* URL, also when the base URL has no path.
C16_RelativeToDirectory ==
    (pc = "fn" /\ fn_out # None /\ RelativeHref(fn_in.href)) =>
        /\ fn_out[1] = DirectoryOf(fn_in.base_url) \o fn_in.href
        /\ StartsWith(fn_out[1], OriginOf(fn_in.base_url) \o Slash)

\* C16 restricted to base URLs that have a path
C16_WithPath ==
    (pc = "fn" /\ fn_out # None /\ RelativeHref(fn_in.href)
       /\ PathOf(fn_in.base_url) # <<>>) =>
        fn_out[1] = DirectoryOf(fn_in.base_url) \o fn_in.href

--------------------------------------------------------------------------
(* Properties of the run on sources with other settings (SettingsSpec) *)

\* the source main is at is of type scrape and lacks list_url or
\* item_link_selector
Unreadable ==
    /\ pc = "source"
    /\ si <= Len(config.sources)
    /\ src_type(config.sources[si]) = SScrape
    /\ \/ config.sources[si].list_url = <<>>
       \/ config.sources[si].item_link_selector = <<>>

\* C17: for a source of type scrape that lacks list_url or
\* item_link_selector, scrape_source returns the empty list without a fetch
\* and without raising, the accepted items stay as they are, and main goes
\* on with the source after it.
C17_MisconfiguredSourceSkipped ==
    /\ [][Unreadable => ( /\ pc' = "merge"
                          /\ scraped' = <<>>
                          /\ list_fetch' = "none"
                          /\ error' = error
                          /\ all_items' = all_items )]_vars
    /\ [][(pc = "merge" /\ list_fetch = "none")
            => (pc' = "source" /\ si' = si + 1)]_vars

\* the URLs that the non-empty hrefs resolve to, in page order
RECURSIVE Resolved(_, _)
Resolved(list_url, hrefs) ==
    IF hrefs = <<>> THEN <<>>
    ELSE (IF Head(hrefs) = <<>> \/ make_absolute_url(list_url, Head(hrefs)) = <<>>
          THEN <<>>
          ELSE << make_absolute_url(list_url, Head(hrefs)) >>)
         \o Resolved(list_url, Tail(hrefs))

\* the positions of seq that hold the first occurrence of their element
FirstPositions(seq) == {i \in 1..Len(seq) : \A j \in 1..(i - 1) : seq[j] # seq[i]}

\* seq without the repetitions, in first-seen order
FirstSeen(seq) ==
    LET K == FirstPositions(seq) IN
    [n \in 1..Cardinality(K) |->
        seq[CHOOSE i \in K : Cardinality({j \in K : j <= i}) = n]]

NoRepetition(seq) == \A i, j \in 1..Len(seq) : i # j => seq[i] # seq[j]

CapOf(i) == max_from_source(config.sources[i])

\* what C18 and its amended form share: the listing page is fetched before
\* any article, the collected URLs are the resolved hrefs without repetitions
\* in first-seen order, and the articles fetched so far are the first
\* candidates, each fetched once
FetchedInCandidateOrder ==
    /\ [](art_log # <<>> => pc = "articles")
    /\ [](pc = "cut" =>
            /\ list_fetch = "text"
            /\ art_log = <<>>
            /\ urls = FirstSeen(Resolved(config.sources[si].list_url, listed)))
    /\ [](pc = "articles" =>
            /\ list_fetch = "text"
            /\ NoRepetition(urls)
            /\ Len(art_log) = ui - 1
            /\ Len(art_log) <= Len(urls)
            /\ \A k \in 1..Len(art_log) : art_log[k].url = urls[k])

\* C18 as claimed: the candidate list is the resolved hrefs without
\* repetitions in first-seen order, cut to its first max_from_source entries;
\* each candidate is fetched at most once, after the listing page, and the
\* articles fetched are max_from_source at most.
C18_AtMostCapFetches ==
    /\ FetchedInCandidateOrder
    /\ [][pc = "cut" => urls' = SubSeq(urls, 1, Min(CapOf(si), Len(urls)))]_vars
    /\ []((pc = "articles" /\ art_log # <<>>) => Len(art_log) <= CapOf(si))

\* C18 as amended: the same for max_from_source >= 0; for
\* max_from_source = -k < 0 the candidate list is the list without
\* repetitions less its last k entries, and that many articles at most are
\* fetched.
C18_AtMostCapFetchesNonNegative ==
    /\ FetchedInCandidateOrder
    /\ [][pc = "cut" =>
            urls' = SubSeq(urls, 1, IF CapOf(si) >= 0 THEN Min(CapOf(si), Len(urls))
                                    ELSE Max(0, Len(urls) + CapOf(si)))]_vars
    /\ []((pc = "articles" /\ CapOf(si) >= 0) => Len(art_log) <= CapOf(si))

\* C18 witness: a source with max_from_source 1 whose candidate list has one
\* entry: that article was fetched and the loop is over
C18_Witness ==
    /\ pc = "articles"
    /\ CapOf(si) = 1
    /\ Len(urls) = 1
    /\ Len(art_log) = 1
    /\ ui = 2

--------------------------------------------------------------------------
(* Properties of the aggregation loop (Spec) *)

\* the item passes the global keyword lists, by the letter-by-letter test
PassesFilters(item) ==
    LET text == item.title \o <<" ">> \o item.summary IN
    /\ ~AnyOccurs(config.exclude_keywords, text)
    /\ config.keywords = <<>> \/ AnyOccurs(config.keywords, text)

InAggregationLoop == pc \in {"source", "articles", "merge", "sort"}

\* C19: throughout the loop over the sources, seen_links is exactly the set
\* of the links of the items in all_items and every item in all_items passes
\* the global keyword lists; the iteration for an item that the filters
\* reject changes neither seen_links nor all_items.
C19_SeenLinksAreAcceptedLinks ==
    /\ [](InAggregationLoop =>
            /\ seen_links = Links(all_items)
            /\ \A i \in 1..Len(all_items) : PassesFilters(all_items[i]))
    /\ [][(pc = "merge" /\ mi <= Len(scraped) /\ ~PassesFilters(scraped[mi]))
            => (seen_links' = seen_links /\ all_items' = all_items)]_vars

\* C19 witness: the loop has processed an item that was rejected, whose link
\* is not in seen_links, and an item that was accepted
C19_Witness ==
    /\ pc = "merge"
    /\ mi > Len(scraped)
    /\ Len(all_items) >= 1
    /\ \E y \in yielded : ~y[3] /\ y[2] \notin seen_links /\ y[1] = si

\* the branch the article loop took for entry e of art_log
OutcomeOf(e) == article_outcome(e.url, [out |-> e.out, body |-> e.page])

\* C20: the scraper takes a fetch for Blocked only when fetch_html returned
\* Blocked: scrape_source comes back from the listing step without parsing a
\* page only when the listing fetch returned Blocked (or no fetch was made),
\* a listing page that was fetched is parsed and its links are collected,
\* whatever its content, and an article is passed over as blocked only when
\* its fetch returned Blocked.
C20_BlockedOnlyWhenDenied ==
    /\ [][(pc = "source" /\ pc' = "merge") => list_fetch' \in {"None", "none"}]_vars
    /\ [][(pc = "source" /\ pc' \in {"merge", "cut"} /\ list_fetch' = "text")
            => pc' = "cut"]_vars
    /\ [](\A k \in 1..Len(art_log) :
            OutcomeOf(art_log[k]) = "blocked" => art_log[k].out = "None")

==========================================================================
